---- MODULE Spec2Model ----
(***************************************************************************)
(* rdupe: the duplicate detection pipeline of DuplicateFinderService       *)
(* (size grouping, partial-hash grouping, full-hash grouping), the Walker  *)
(* (FileSystemAdapter), the Hasher (MultiAlgorithmHasher behind the        *)
(* HashingPort) and the cache store (FileCacheAdapter).                    *)
(*                                                                         *)
(* Option<T> values are sequences: <<>> is None and <<x>> is Some(x).      *)
(* HashMap iteration order is unspecified in the source; the model lists   *)
(* groups in order of first insertion and the properties below never       *)
(* depend on the order of groups.                                          *)
(* The filesystem is stable while a scan runs; it changes between scans.   *)
(***************************************************************************)
EXTENDS Integers, Sequences, FiniteSets, TLC

\* ---------------------------------------------------------------- bounds
NumPaths == 3        \* paths of the tree scanned with the MultiAlgorithmHasher
NumPortPaths == 4    \* paths of the tree scanned with another HashingPort
NumStorePaths == 2   \* paths of the tree scanned beside a cache file found in any state
NumServicePaths == 2 \* paths of the tree scanned by successive calls on one service
NumTaskPaths == 4    \* paths of the tree hashed by tasks that interleave step by step
MaxLen == 2          \* bytes of a file handed to the Hasher directly
MaxRuns == 2         \* successive scans that share one cache file

\* ------------------------------------------------------ program constants
DefaultPartialHashSize == 8192
DefaultMmapThreshold == 67108864
DaySecs == 86400
Band1Max == 4096
Band2Max == 65536
Band3Max == 1048576
Band4Max == 104857600
Band2Prefix == 1024

Byte == {0, 1}
Paths == 1..NumPaths
PortPaths == 1..NumPortPaths
StorePaths == 1..NumStorePaths
ServicePaths == 1..NumServicePaths
TaskPaths == 1..NumTaskPaths
ExistingRoots == {"r1", "r2"}
MissingRoot == "missing"
Patterns == {"*.bin"}
MinSizes == {0, 1}
CARGO_PKG_VERSION == "CARGO_PKG_VERSION"
CachePath == "cache.json"

None == <<>>
Some(x) == <<x>>
IsSome(o) == o /= <<>>
Unwrap(o) == o[1]

Min(a, b) == IF a <= b THEN a ELSE b
Take(s, n) == SubSeq(s, 1, Min(n, Len(s)))

RECURSIVE SumSeq(_)
SumSeq(s) == IF s = <<>> THEN 0 ELSE Head(s) + SumSeq(Tail(s))

RECURSIVE Flatten(_)
Flatten(ss) == IF ss = <<>> THEN <<>> ELSE Head(ss) \o Flatten(Tail(ss))

Range(s) == {s[i] : i \in DOMAIN s}

Contents == {<<>>} \union {<<b>> : b \in Byte}

\* layout of the tree: which root a path lies under, and its file name
RootOf(p) == IF p % 2 = 1 THEN "r1" ELSE "r2"
IsBin(p) == ((p - 1) \div 2) % 2 = 0
Matches(p, rule) == rule = "*.bin" /\ IsBin(p)

VARIABLES
    fs,           \* path -> Option<[content, modified]>
    ignoreFile,   \* Option<[name, rules]>: an ignore file in the working directory
    cacheFile,    \* the file at config.cache_file
    clock,        \* the wall clock read by SystemTime::now(), in seconds
    disk,         \* condition of the volume that holds the cache file
    edited,       \* the tree has changed since the first scan
    poolBuilt,    \* rayon's global pool has been initialised in this process
    loaded,       \* find_duplicates: what load_cache handed back (line 42)
    config,       \* ScanConfig
    port,         \* the HashingPort implementation the service was built with
    pc,           \* position of find_duplicates
    files,        \* find_duplicates: the candidate list `files`
    retained,     \* find_duplicates: paths of `valid_cached`
    groups,       \* hash_files_parallel: file_groups after filter(len > 1)
    pos,          \* hash_files_parallel: per group, files consumed by its task
    processed,    \* hash_files_parallel: per group, processed_files
    counter,      \* hash_files_parallel: the AtomicUsize
    pending,      \* hash_files_parallel: per group, the count its task took
                  \* from fetch_add and has not handed to progress.update yet
    progress,     \* calls received by the ProgressPort, in order
    hashLog,      \* calls received by the HashingPort in this process
    result,       \* Option<Result<ScanResult>> of the last call
    runsLeft,     \* find_duplicates calls still allowed
    call          \* a direct call of one function: its arguments and, once
                  \* it has returned, its value

vars == <<fs, ignoreFile, cacheFile, clock, disk, edited, poolBuilt, loaded, config, port, pc, files,
          retained, groups, pos, processed, counter, pending, progress,
          hashLog, result, runsLeft, call>>

\* ------------------------------------------------------------- domain.rs

FileMetadataNew(path, size, modified) ==
    [path |-> path, size |-> size, partial_hash |-> None,
     full_hash |-> None, modified |-> modified]

with_partial_hash(f, hash) == [f EXCEPT !.partial_hash = Some(hash)]

with_full_hash(f, hash) == [f EXCEPT !.full_hash = Some(hash)]

get_best_hash(f) == IF IsSome(f.full_hash) THEN f.full_hash ELSE f.partial_hash

DuplicateSetNew(hash, fl) ==
    [hash |-> hash, files |-> fl,
     total_size |-> SumSeq([i \in DOMAIN fl |-> fl[i].size])]

wasted_space(d) ==
    IF Len(d.files) <= 1 THEN 0 ELSE d.total_size - d.files[1].size

ScanResultNew(duplicates, total_files_scanned, total_size_scanned) ==
    [ok |-> TRUE,
     duplicates |-> duplicates,
     total_files_scanned |-> total_files_scanned,
     total_size_scanned |-> total_size_scanned,
     total_wasted_space |->
         SumSeq([i \in DOMAIN duplicates |-> wasted_space(duplicates[i])])]

ScanErr ==
    [ok |-> FALSE, duplicates |-> <<>>, total_files_scanned |-> 0,
     total_size_scanned |-> 0, total_wasted_space |-> 0]

\* DefaultHasher over the hashed fields, taken to be collision free
config_hash(c) ==
    <<c.paths, c.follow_symlinks, c.min_size, c.max_depth, c.ignore_patterns,
      c.partial_hash_size, c.use_mmap_threshold, c.thread_count,
      c.hash_algorithm, c.cross_filesystem>>

DefaultConfig ==
    [paths |-> <<"r1">>, follow_symlinks |-> FALSE, min_size |-> 0,
     max_depth |-> None, ignore_patterns |-> {},
     partial_hash_size |-> DefaultPartialHashSize,
     use_mmap_threshold |-> DefaultMmapThreshold, thread_count |-> None,
     hash_algorithm |-> "blake3", cross_filesystem |-> TRUE,
     cache_file |-> None, incremental |-> FALSE]

\* ------------------------------------------------- adapters/multi_hasher.rs

BufferSize == 8192
HashBase == Cardinality(Byte) + 1

\* hasher.update(data): the digest state absorbs data byte by byte; the state
\* is a positional code of the bytes absorbed, so distinct inputs give
\* distinct digests (the digest is taken to be collision free)
RECURSIVE Feed(_, _)
Feed(h, data) ==
    IF data = <<>> THEN h
    ELSE Feed(h * HashBase + Head(data) + 1, Tail(data))

Finalize(alg, h) == [alg |-> alg, hex |-> h]

NoDigest == [alg |-> "", hex |-> 0]
HashOk(d) == [ok |-> TRUE, hash |-> d]
HashErr == [ok |-> FALSE, hash |-> NoDigest]

\* The operators of this section return the SET of values a call may return:
\* the digest of the buffered route may depend on how many bytes each
\* reader.read(buffer) call hands back.

\* the slice handed to the hasher being the whole map, whatever the limit
hash_with_mmap_whole(content, limit, alg) ==
    {Finalize(alg, Feed(0, content))}

hash_with_mmap(content, limit, alg) ==
    LET data == IF IsSome(limit) THEN Take(content, Unwrap(limit)) ELSE content
    IN  {Finalize(alg, Feed(0, data))}

\* reader.read(buffer): Ok(n) with 0 < n <= buffer.len() while bytes remain
\* (a read may come back short), Ok(0) at the end of the file
ReadSizes(rest) == 1..Min(BufferSize, Len(rest))

\* the digest states the loop can end in
RECURSIVE process_buffered_data(_, _, _, _)
process_buffered_data(h, rest, limit, bytes_processed) ==
    IF rest = <<>> THEN {h}
    ELSE IF IsSome(limit) /\ bytes_processed >= Unwrap(limit) THEN {h}
    ELSE UNION {
        LET bytes_to_process ==
                IF IsSome(limit)
                THEN Min(bytes_read, Unwrap(limit) - bytes_processed)
                ELSE bytes_read
        IN  process_buffered_data(
                Feed(h, SubSeq(rest, 1, bytes_to_process)),
                SubSeq(rest, bytes_read + 1, Len(rest)),
                limit, bytes_processed + bytes_to_process)
        : bytes_read \in ReadSizes(rest)}

\* the digest is finalised without the chunks having been fed to it
hash_with_buffered_io_unfed(content, limit, alg) ==
    {Finalize(alg, 0)}

hash_with_buffered_io(content, limit, alg) ==
    {Finalize(alg, h) : h \in process_buffered_data(0, content, limit, 0)}

HashRoute(content, limit, alg, mmap_threshold) ==
    IF Len(content) >= mmap_threshold
    THEN hash_with_mmap(content, limit, alg)
    ELSE hash_with_buffered_io(content, limit, alg)

\* std::fs::metadata(path)? fails for a path that is gone
hash_file(path, alg) ==
    IF ~IsSome(fs[path]) THEN {HashErr}
    ELSE {HashOk(d) : d \in HashRoute(Unwrap(fs[path]).content, None, alg,
                                      config.use_mmap_threshold)}

hash_partial(path, bytes, alg) ==
    IF ~IsSome(fs[path]) THEN {HashErr}
    ELSE {HashOk(d) : d \in HashRoute(Unwrap(fs[path]).content, Some(bytes),
                                      alg, config.use_mmap_threshold)}

\* ------------------------------------------------------------- ports.rs

\* digest strings a HashingPort may hand back: two distinct strings, enough
\* for two answers to agree or to differ
DigestStrings(alg) == {Finalize(alg, h) : h \in {0, 1}}

\* ------------------------------------------------- adapters/filesystem.rs

\* the entries of the tree in the order the walk visits them
PathSeq == [i \in 1..Cardinality(DOMAIN fs) |-> i]

IgnoreFileName(pattern) == <<pattern, "\n">>

\* builder.add_ignore(path) reads gitignore rules from the FILE at `path`;
\* a path that cannot be opened adds no rule and the error value is dropped
add_ignore(name) ==
    IF IsSome(ignoreFile) /\ Unwrap(ignoreFile).name = name
    THEN Unwrap(ignoreFile).rules
    ELSE {}

WalkerRules(c) ==
    UNION {add_ignore(IgnoreFileName(pattern)) : pattern \in c.ignore_patterns}

\* the closure without its size < config.min_size test
AcceptEntryNoMinSize(c, r, p) ==
    /\ IsSome(fs[p])
    /\ RootOf(p) = r
    /\ \A rule \in WalkerRules(c) : ~Matches(p, rule)

\* the filter_map closure of scan_files for one entry under root r; the tree
\* holds regular files that the walk's standard filters let through
AcceptEntry(c, r, p) ==
    /\ IsSome(fs[p])
    /\ RootOf(p) = r
    /\ \A rule \in WalkerRules(c) : ~Matches(p, rule)
    /\ Len(Unwrap(fs[p]).content) >= c.min_size

\* the walk of one root: a root that does not exist yields one Err entry,
\* which entry.ok()? drops, so the closure still returns Ok(entries)
WalkRoot(c, r) ==
    IF r \notin ExistingRoots THEN <<>>
    ELSE LET kept == SelectSeq(PathSeq, LAMBDA p : AcceptEntry(c, r, p))
         IN  [i \in DOMAIN kept |->
                 FileMetadataNew(kept[i],
                                 Len(Unwrap(fs[kept[i]]).content),
                                 Unwrap(fs[kept[i]]).modified)]

scan_files(c) ==
    [ok |-> TRUE,
     files |-> Flatten([i \in DOMAIN c.paths |-> WalkRoot(c, c.paths[i])])]

\* ------------------------------------------------------ adapters/cache.rs

AbsentCache ==
    [state |-> "absent", files |-> <<>>, scan_config_hash |-> <<>>,
     last_scan |-> 0, version |-> ""]

CorruptCache == [AbsentCache EXCEPT !.state = "corrupt"]

\* Ok(None) for a missing file, Err for an unparsable one
load_cache == 
    IF cacheFile.state = "snapshot" THEN Some(cacheFile) ELSE None

\* the checks without the one on the age of the snapshot
is_cache_valid_any_age(cache, c, now) ==
    IF cache.scan_config_hash /= config_hash(c) THEN FALSE
    ELSE IF cache.version /= CARGO_PKG_VERSION THEN FALSE
    ELSE TRUE

is_cache_valid(cache, c, now) ==
    IF cache.scan_config_hash /= config_hash(c) THEN FALSE
    ELSE IF now >= cache.last_scan /\ now - cache.last_scan > DaySecs THEN FALSE
    ELSE IF cache.version /= CARGO_PKG_VERSION THEN FALSE
    ELSE TRUE

\* the filter without its comparison of the modification times
filter_changed_files_size_only(cached_files) ==
    SelectSeq(cached_files,
              LAMBDA f : /\ IsSome(fs[f.path])
                         /\ Len(Unwrap(fs[f.path]).content) = f.size)

filter_changed_files(cached_files) ==
    SelectSeq(cached_files,
              LAMBDA f : /\ IsSome(fs[f.path])
                         /\ Len(Unwrap(fs[f.path]).content) = f.size
                         /\ Unwrap(fs[f.path]).modified = f.modified)

create_cache(fl, c, now) ==
    [state |-> "snapshot", files |-> fl, scan_config_hash |-> config_hash(c),
     last_scan |-> now, version |-> CARGO_PKG_VERSION]

\* save_cache: the file holds the new snapshot; or create_dir_all / the open
\* fails (read-only volume) and it is untouched; or fs::write fails part way
\* (volume full) after the file was truncated
save_cache(cache) ==
    IF disk = "ok" THEN cache
    ELSE IF disk = "readonly" THEN cacheFile
    ELSE CorruptCache

\* ------------------------------------------- services/duplicate_finder.rs

RECURSIVE DistinctInOrder(_, _)
DistinctInOrder(ks, seen) ==
    IF ks = <<>> THEN <<>>
    ELSE IF Head(ks) \in seen THEN DistinctInOrder(Tail(ks), seen)
    ELSE <<Head(ks)>> \o DistinctInOrder(Tail(ks), seen \union {Head(ks)})

\* the files of fl whose key, listed at the same index of ks, is key
RECURSIVE FilesOfKey(_, _, _)
FilesOfKey(fl, ks, key) ==
    IF fl = <<>> THEN <<>>
    ELSE (IF Head(ks) = key THEN <<Head(fl)>> ELSE <<>>)
             \o FilesOfKey(Tail(fl), Tail(ks), key)

\* HashMap<K, Vec<FileMetadata>>: entry(key).or_default().push(file) for each
\* file of fl in turn, ks[i] being the key of fl[i]; one Vec per key, each in
\* insertion order
GroupByKey(fl, ks) ==
    LET keys == DistinctInOrder(ks, {})
    IN  [k \in DOMAIN keys |-> FilesOfKey(fl, ks, keys[k])]

MoreThanOne(gs) == SelectSeq(gs, LAMBDA g : Len(g) > 1)

MoreThanTwo(gs) == SelectSeq(gs, LAMBDA g : Len(g) > 2)

\* the match without the doubling of the base in its fourth arm
calculate_adaptive_partial_hash_size_flat(file_size, base_size) ==
    IF file_size <= Band1Max THEN file_size
    ELSE IF file_size <= Band2Max THEN Min(Band2Prefix, file_size)
    ELSE IF file_size <= Band4Max THEN Min(base_size, file_size)
    ELSE Min(base_size * 8, file_size)

calculate_adaptive_partial_hash_size(file_size, base_size) ==
    IF file_size <= Band1Max THEN file_size
    ELSE IF file_size <= Band2Max THEN Min(Band2Prefix, file_size)
    ELSE IF file_size <= Band3Max THEN Min(base_size, file_size)
    ELSE IF file_size <= Band4Max THEN Min(base_size * 2, file_size)
    ELSE Min(base_size * 8, file_size)

\* find_duplicates, lines 40-51
CachedFiles(c, now) ==
    IF IsSome(c.cache_file) /\ IsSome(load_cache)
          /\ is_cache_valid(Unwrap(load_cache), c, now)
    THEN IF c.incremental
         THEN filter_changed_files(Unwrap(load_cache).files)
         ELSE Unwrap(load_cache).files
    ELSE <<>>

\* find_duplicates, lines 56-58
ValidCached(cached_files, new_files) ==
    SelectSeq(cached_files,
              LAMBDA f : \E i \in DOMAIN new_files : new_files[i].path = f.path)

\* the loop of lines 60-65 without its test for a path already merged
PushNewAll(merged, new_files) == merged \o new_files

\* find_duplicates, lines 60-65
RECURSIVE PushNew(_, _)
PushNew(merged, new_files) ==
    IF new_files = <<>> THEN merged
    ELSE IF \E i \in DOMAIN merged : merged[i].path = Head(new_files).path
         THEN PushNew(merged, Tail(new_files))
         ELSE PushNew(Append(merged, Head(new_files)), Tail(new_files))

\* the merge of lines 53-69 with the Walker's records pushed first
CandidateFilesWalkerFirst(c, cached_files) ==
    IF c.incremental /\ cached_files /= <<>>
    THEN PushNew(scan_files(c).files,
                 ValidCached(cached_files, scan_files(c).files))
    ELSE scan_files(c).files

\* find_duplicates, lines 53-69
CandidateFiles(c, cached_files) ==
    IF c.incremental /\ cached_files /= <<>>
    THEN PushNew(ValidCached(cached_files, scan_files(c).files),
                 scan_files(c).files)
    ELSE scan_files(c).files

\* find_duplicates, lines 78-86
PotentialDuplicates(fl) ==
    MoreThanOne(GroupByKey(fl, [i \in DOMAIN fl |-> fl[i].size]))

\* hash_files_parallel, lines 181-197
Regroup(hashed_groups, is_partial) ==
    LET hashOf(f) == IF is_partial THEN f.partial_hash ELSE f.full_hash
        hashed(g) == SelectSeq(g, LAMBDA f : IsSome(hashOf(f)))
        sub(g) == GroupByKey(hashed(g),
                             [i \in DOMAIN hashed(g) |-> hashOf(hashed(g)[i])])
        kept == MoreThanOne(hashed_groups)
    IN  Flatten([i \in DOMAIN kept |-> MoreThanOne(sub(kept[i]))])

\* the regrouping of lines 116-123 over the files of the first group only
FinalGroupsFirstTask(full_hash_groups) ==
    LET hashed == SelectSeq(Flatten(Take(full_hash_groups, 1)),
                            LAMBDA f : IsSome(get_best_hash(f)))
    IN  GroupByKey(hashed, [i \in DOMAIN hashed |-> get_best_hash(hashed[i])])

\* progressive_hash_with_channels, lines 116-123
FinalGroups(full_hash_groups) ==
    LET hashed == SelectSeq(Flatten(full_hash_groups),
                            LAMBDA f : IsSome(get_best_hash(f)))
    IN  GroupByKey(hashed, [i \in DOMAIN hashed |-> get_best_hash(hashed[i])])

\* the filter of lines 125-129 with files.len() > 2
KeepGroupsOverTwo(hash_groups) == MoreThanTwo(hash_groups)

\* progressive_hash_with_channels, lines 125-129

KeepGroups(hash_groups) == MoreThanOne(hash_groups)

Duplicates(full_hash_groups) ==
    LET kept == KeepGroups(FinalGroups(full_hash_groups))
    IN  [i \in DOMAIN kept |->
            DuplicateSetNew(Unwrap(get_best_hash(kept[i][1])), kept[i])]

\* what the HashingPort may return for one call of stage 2 or stage 3
HashOutcomes(is_partial, file) ==
    IF port = "MultiAlgorithmHasher"
    THEN {HashErr} \union
         (IF is_partial
          THEN hash_partial(file.path,
                   calculate_adaptive_partial_hash_size(
                       file.size, config.partial_hash_size),
                   config.hash_algorithm)
          ELSE hash_file(file.path, config.hash_algorithm))
    ELSE {HashErr} \union {HashOk(d) : d \in DigestStrings(config.hash_algorithm)}

Event(op, n) == [op |-> op, n |-> n]

\* the total handed to progress.start without the doubling for the two stages
ProgressTotalOnce(size_groups) == Len(Flatten(size_groups))

\* progressive_hash_with_channels, lines 110-111
ProgressTotal(size_groups) == Len(Flatten(size_groups)) * 2

\* no function is called directly
NoCall ==
    [fn |-> "", size |-> 0, base |-> 0, path |-> 0, bytes |-> 0,
     prefix |-> None, answer |-> None]

\* calls of calculate_adaptive_partial_hash_size: file sizes at the ends of
\* each band and just past them, bases below, at and above the default
ProbeSizes ==
    {0, 1, Band2Prefix, Band1Max, Band1Max + 1, Band2Max, Band2Max + 1,
     Band3Max, Band3Max + 1, Band4Max, Band4Max + 1, 8 * Band4Max}
ProbeBases == {0, Band2Prefix, DefaultPartialHashSize, Band3Max, Band4Max}
AdaptiveCalls ==
    {[NoCall EXCEPT !.fn = "calculate_adaptive_partial_hash_size",
                    !.size = s, !.base = b] :
         s \in ProbeSizes, b \in ProbeBases}

\* calls of hash_file and hash_partial on the file at path 1
HasherCalls ==
    {[NoCall EXCEPT !.fn = "hash_file", !.path = 1]}
    \union {[NoCall EXCEPT !.fn = "hash_partial", !.path = 1, !.bytes = n] :
                n \in 0..(MaxLen + 1)}

HashAlgorithms == {"blake3", "md5", "sha1", "sha256"}

\* mmap thresholds that send every file, the longest files only, or no file
\* down the mmap route
RouteThresholds == {0, MaxLen, DefaultMmapThreshold}

HashedContents == UNION {[1..n -> Byte] : n \in 0..MaxLen}

Mtimes == {0, 1}

FileStates ==
    {None} \union {Some([content |-> c, modified |-> 0]) : c \in Contents}

RootLists ==
    {<<"r1">>, <<"r2">>, <<"r1", "r2">>, <<"r1", "r1">>,
     <<MissingRoot>>, <<"r1", MissingRoot>>}

AllRoots == <<"r1", "r2">>

DiskStates == {"ok", "readonly", "full"}

TypeOK ==
    /\ pc \in {"idle", "partial", "full", "done"}
    /\ runsLeft \in 0..MaxRuns
    /\ DOMAIN pending = DOMAIN groups
    /\ counter \in Nat
    /\ edited \in BOOLEAN
    /\ disk \in DiskStates
    /\ DOMAIN pos = DOMAIN groups
    /\ DOMAIN processed = DOMAIN groups

\* a single scan with any Walker configuration, hashing with the
\* MultiAlgorithmHasher as wired in main.rs
Init ==
    /\ fs \in [Paths -> FileStates]
    /\ ignoreFile \in {None} \union
           {Some([name |-> IgnoreFileName(pt), rules |-> {r}]) :
                pt \in Patterns, r \in Patterns}
    /\ cacheFile = AbsentCache
    /\ clock = 0
    /\ disk = "ok"
    /\ edited = FALSE
    /\ poolBuilt = FALSE
    /\ loaded = None
    /\ config \in {[DefaultConfig EXCEPT !.paths = ps, !.min_size = m,
                                         !.ignore_patterns = ig] :
                       ps \in RootLists, m \in MinSizes, ig \in SUBSET Patterns}
    /\ port = "MultiAlgorithmHasher"
    /\ pc = "idle"
    /\ files = <<>>
    /\ retained = {}
    /\ groups = <<>>
    /\ pos = <<>>
    /\ processed = <<>>
    /\ counter = 0
    /\ pending = <<>>
    /\ call = NoCall
    /\ progress = <<>>
    /\ hashLog = {}
    /\ result = None
    /\ runsLeft = 1

\* a single scan of every root by a service built over any other HashingPort
InitPort ==
    /\ fs \in [PortPaths -> FileStates]
    /\ ignoreFile = None
    /\ cacheFile = AbsentCache
    /\ clock = 0
    /\ disk = "ok"
    /\ edited = FALSE
    /\ poolBuilt = FALSE
    /\ loaded = None
    /\ config = [DefaultConfig EXCEPT !.paths = AllRoots]
    /\ port = "generic"
    /\ pc = "idle"
    /\ files = <<>>
    /\ retained = {}
    /\ groups = <<>>
    /\ pos = <<>>
    /\ processed = <<>>
    /\ counter = 0
    /\ pending = <<>>
    /\ call = NoCall
    /\ progress = <<>>
    /\ hashLog = {}
    /\ result = None
    /\ runsLeft = 1

\* successive scans of every root with a cache file, the tree changing
\* between scans
InitCache ==
    /\ fs \in [Paths -> FileStates]
    /\ ignoreFile = None
    /\ cacheFile = AbsentCache
    /\ clock = 0
    /\ disk = "ok"
    /\ edited = FALSE
    /\ poolBuilt = FALSE
    /\ loaded = None
    /\ config \in {[DefaultConfig EXCEPT !.paths = AllRoots, !.min_size = m,
                                         !.cache_file = Some(CachePath),
                                         !.incremental = inc] :
                       m \in MinSizes, inc \in BOOLEAN}
    /\ port = "MultiAlgorithmHasher"
    /\ pc = "idle"
    /\ files = <<>>
    /\ retained = {}
    /\ groups = <<>>
    /\ pos = <<>>
    /\ processed = <<>>
    /\ counter = 0
    /\ pending = <<>>
    /\ call = NoCall
    /\ progress = <<>>
    /\ hashLog = {}
    /\ result = None
    /\ runsLeft = MaxRuns

\* wall-clock readings and snapshot times, in seconds: a snapshot can be of
\* this instant, exactly a day old, older, or stamped later than the clock
Clocks == {DaySecs, DaySecs + 1}
LastScans == {0, DaySecs + 1}
Versions == {CARGO_PKG_VERSION, "0.0.0"}

\* a digest string kept from an earlier scan; no call of this scan returns it
StaleDigest == Finalize("blake3", -1)

\* a record as serde reads it from a snapshot whose writer filled in the hashes
Hashed(f) == with_full_hash(with_partial_hash(f, StaleDigest), StaleDigest)

\* records a snapshot may hold for path p
OldRecords(p) ==
    {None} \union
    {Some(Hashed(FileMetadataNew(p, sz, m))) : sz \in {0, 1}, m \in Mtimes}

\* the record lists of snapshots taken of tree t, with or without hashes, or
\* of a tree that differs from t in one file
SnapshotLists(t) ==
    LET now == [p \in DOMAIN t |->
                   IF IsSome(t[p])
                   THEN Some(FileMetadataNew(p, Len(Unwrap(t[p]).content),
                                             Unwrap(t[p]).modified))
                   ELSE None]
        kept == [p \in DOMAIN t |->
                    IF IsSome(now[p]) THEN Some(Hashed(Unwrap(now[p])))
                    ELSE None]
        olds == {now, kept} \union
                UNION {{[kept EXCEPT ![p] = o] : o \in OldRecords(p)} :
                           p \in DOMAIN t}
    IN  {Flatten([i \in 1..Cardinality(DOMAIN t) |-> o[i]]) : o \in olds}

\* what the file at config.cache_file may hold before a scan of tree t with
\* config c: nothing, no parsable snapshot, a snapshot of this config and
\* version, or a snapshot of another config or version
StoredFiles(t, c) ==
    {AbsentCache, CorruptCache}
    \union
    {[state |-> "snapshot", files |-> fl, scan_config_hash |-> config_hash(c),
      last_scan |-> ls, version |-> CARGO_PKG_VERSION] :
         fl \in SnapshotLists(t), ls \in LastScans}
    \union
    {[state |-> "snapshot", files |-> Flatten([i \in 1..Cardinality(DOMAIN t) |->
                                      IF IsSome(t[i])
                                      THEN <<FileMetadataNew(i, Len(Unwrap(t[i]).content),
                                                             Unwrap(t[i]).modified)>>
                                      ELSE <<>>]),
      scan_config_hash |-> h, last_scan |-> ls, version |-> v] :
         h \in {config_hash(c), config_hash([c EXCEPT !.min_size = c.min_size + 1])},
         ls \in LastScans, v \in Versions}

\* a single scan that finds the cache file, the clock and the volume of the
\* cache file in any condition
InitStore ==
    /\ fs \in [StorePaths -> FileStates]
    /\ ignoreFile = None
    /\ config \in {[DefaultConfig EXCEPT !.paths = AllRoots, !.min_size = m,
                                         !.cache_file = Some(CachePath),
                                         !.incremental = inc] :
                       m \in MinSizes, inc \in BOOLEAN}
    /\ cacheFile \in StoredFiles(fs, config)
    /\ clock \in Clocks
    /\ disk \in DiskStates
    /\ edited = FALSE
    /\ poolBuilt = FALSE
    /\ loaded = None
    /\ port = "MultiAlgorithmHasher"
    /\ pc = "idle"
    /\ files = <<>>
    /\ retained = {}
    /\ groups = <<>>
    /\ pos = <<>>
    /\ processed = <<>>
    /\ counter = 0
    /\ pending = <<>>
    /\ call = NoCall
    /\ progress = <<>>
    /\ hashLog = {}
    /\ result = None
    /\ runsLeft = 1

ThreadCounts == {None, Some(2)}

\* successive find_duplicates calls on one service in one process, the tree
\* and the config unchanged
InitService ==
    /\ fs \in [ServicePaths -> FileStates]
    /\ ignoreFile = None
    /\ cacheFile = AbsentCache
    /\ clock = 0
    /\ disk = "ok"
    /\ edited = FALSE
    /\ poolBuilt = FALSE
    /\ loaded = None
    /\ config \in {[DefaultConfig EXCEPT !.paths = AllRoots,
                                         !.cache_file = Some(CachePath),
                                         !.incremental = inc,
                                         !.thread_count = t] :
                       inc \in BOOLEAN, t \in ThreadCounts}
    /\ port = "MultiAlgorithmHasher"
    /\ pc = "idle"
    /\ files = <<>>
    /\ retained = {}
    /\ groups = <<>>
    /\ pos = <<>>
    /\ processed = <<>>
    /\ counter = 0
    /\ pending = <<>>
    /\ call = NoCall
    /\ progress = <<>>
    /\ hashLog = {}
    /\ result = None
    /\ runsLeft = MaxRuns

\* one function called directly, or one scan of every root with any base
\* prefix size
InitUnit ==
    /\ ignoreFile = None
    /\ cacheFile = AbsentCache
    /\ clock = 0
    /\ disk = "ok"
    /\ edited = FALSE
    /\ poolBuilt = FALSE
    /\ loaded = None
    /\ port = "MultiAlgorithmHasher"
    /\ pc = "idle"
    /\ files = <<>>
    /\ retained = {}
    /\ groups = <<>>
    /\ pos = <<>>
    /\ processed = <<>>
    /\ counter = 0
    /\ pending = <<>>
    /\ progress = <<>>
    /\ hashLog = {}
    /\ result = None
    /\ \/ /\ call \in AdaptiveCalls
          /\ fs = [p \in 1..1 |-> None]
          /\ config = DefaultConfig
          /\ runsLeft = 0
       \/ /\ call \in HasherCalls
          /\ fs \in [1..1 -> {None} \union
                                  {Some([content |-> c, modified |-> 0]) :
                                       c \in HashedContents}]
          /\ config \in {[DefaultConfig EXCEPT !.use_mmap_threshold = t,
                                               !.hash_algorithm = a] :
                             t \in RouteThresholds, a \in HashAlgorithms}
          /\ runsLeft = 0
       \/ /\ call = NoCall
          /\ fs \in [ServicePaths -> FileStates]
          /\ config \in {[DefaultConfig EXCEPT !.paths = AllRoots,
                                               !.partial_hash_size = b] :
                             b \in ProbeBases}
          /\ runsLeft = 1

\* position of a content in the order empty, <<0>>, <<1>>
ContentRank(c) == IF c = <<>> THEN 0 ELSE c[1] + 1

\* a single scan of every root of a tree in which every path is a file; the
\* scan treats the paths alike, so the trees are taken up to a renaming of
\* their paths, with the contents in ascending order
InitTasks ==
    /\ fs \in [TaskPaths -> FileStates \ {None}]
    /\ \A p \in TaskPaths \ {NumTaskPaths} :
          ContentRank(Unwrap(fs[p]).content)
              <= ContentRank(Unwrap(fs[p + 1]).content)
    /\ ignoreFile = None
    /\ cacheFile = AbsentCache
    /\ clock = 0
    /\ disk = "ok"
    /\ edited = FALSE
    /\ poolBuilt = FALSE
    /\ loaded = None
    /\ config = [DefaultConfig EXCEPT !.paths = AllRoots]
    /\ port = "MultiAlgorithmHasher"
    /\ pc = "idle"
    /\ files = <<>>
    /\ retained = {}
    /\ groups = <<>>
    /\ pos = <<>>
    /\ processed = <<>>
    /\ counter = 0
    /\ pending = <<>>
    /\ call = NoCall
    /\ progress = <<>>
    /\ hashLog = {}
    /\ result = None
    /\ runsLeft = 1

StartStage(gs) ==
    /\ groups' = gs
    /\ pos' = [g \in DOMAIN gs |-> 0]
    /\ processed' = [g \in DOMAIN gs |-> <<>>]
    /\ counter' = 0
    /\ pending' = [g \in DOMAIN gs |-> None]

\* find_duplicates, lines 32-96: up to the first hash_files_parallel call
FindDuplicatesCall ==
    /\ runsLeft > 0
    /\ runsLeft' = runsLeft - 1
    /\ UNCHANGED <<fs, ignoreFile, clock, disk, edited, config, port,
                   hashLog, call>>
    /\ LET now == clock
            cached_files == CachedFiles(config, now)
            fl == CandidateFiles(config, cached_files)
            total_files == Len(fl)
            total_size == SumSeq([i \in DOMAIN fl |-> fl[i].size])
            potential_duplicates == PotentialDuplicates(fl)
        IN
        IF IsSome(config.thread_count) /\ poolBuilt
        THEN \* build_global fails: "Failed to configure thread pool"
             /\ result' = Some(ScanErr)
             /\ pc' = "done"
             /\ files' = <<>>
             /\ retained' = {}
             /\ progress' = <<>>
             /\ StartStage(<<>>)
             /\ UNCHANGED <<cacheFile, poolBuilt, loaded>>
        ELSE
             /\ poolBuilt' = TRUE
             /\ loaded' = IF IsSome(config.cache_file) THEN load_cache ELSE None
             /\ files' = fl
             /\ retained' =
                    IF config.incremental /\ cached_files /= <<>>
                    THEN {f.path : f \in Range(
                              ValidCached(cached_files, scan_files(config).files))}
                    ELSE {}
             /\ IF ~scan_files(config).ok
                THEN /\ result' = Some(ScanErr)
                     /\ pc' = "done"
                     /\ progress' = <<>>
                     /\ StartStage(<<>>)
                     /\ UNCHANGED cacheFile
                ELSE IF fl = <<>>
                THEN /\ result' = Some(ScanResultNew(<<>>, 0, 0))
                     /\ pc' = "done"
                     /\ progress' = <<>>
                     /\ StartStage(<<>>)
                     /\ UNCHANGED cacheFile
                ELSE IF potential_duplicates = <<>>
                THEN /\ result' = Some(ScanResultNew(<<>>, total_files, total_size))
                     /\ pc' = "done"
                     /\ progress' = <<>>
                     /\ StartStage(<<>>)
                     /\ IF IsSome(config.cache_file)
                        THEN cacheFile' = save_cache(create_cache(fl, config, now))
                        ELSE UNCHANGED cacheFile
                ELSE /\ pc' = "partial"
                     /\ progress' =
                            <<Event("start", ProgressTotal(potential_duplicates))>>
                     /\ StartStage(MoreThanOne(potential_duplicates))
                     /\ UNCHANGED <<cacheFile, result>>

\* the call main makes on a fresh service
FindDuplicatesBegin ==
    /\ pc = "idle"
    /\ FindDuplicatesCall

\* a further call on the same service after the last one returned
FindDuplicatesAgain ==
    /\ pc = "done"
    /\ FindDuplicatesCall

\* hash_files_parallel, lines 150-175: the task of group g takes its next
\* file and the HashingPort answers Ok(hash)
HashFileOk(g) ==
    /\ pc \in {"partial", "full"}
    /\ g \in DOMAIN groups
    /\ pending[g] = None
    /\ pos[g] < Len(groups[g])
    /\ LET file == groups[g][pos[g] + 1] IN
       \E out \in HashOutcomes(pc = "partial", file) :
          /\ out.ok
          /\ processed' = [processed EXCEPT ![g] =
                 Append(@, IF pc = "partial"
                           THEN with_partial_hash(file, out.hash)
                           ELSE with_full_hash(file, out.hash))]
          /\ hashLog' = hashLog \union
                 {[run |-> runsLeft, stage |-> pc, slot |-> <<g, pos[g] + 1>>,
                   path |-> file.path, out |-> out]}
    /\ pos' = [pos EXCEPT ![g] = @ + 1]
    /\ counter' = counter + 1
    /\ progress' = Append(progress, Event("update", counter + 1))
    /\ UNCHANGED <<fs, ignoreFile, cacheFile, clock, disk, edited, poolBuilt,
                   loaded, config, port, pc, files, retained, groups, result,
                   pending, runsLeft, call>>

\* the Err arm handing the error on to the caller instead of skipping the file
HashFileErrAbort(g) ==
    /\ pc \in {"partial", "full"}
    /\ g \in DOMAIN groups
    /\ pending[g] = None
    /\ pos[g] < Len(groups[g])
    /\ LET file == groups[g][pos[g] + 1] IN
          /\ HashErr \in HashOutcomes(pc = "partial", file)
          /\ hashLog' = hashLog \union
                 {[run |-> runsLeft, stage |-> pc, slot |-> <<g, pos[g] + 1>>,
                   path |-> file.path, out |-> HashErr]}
    /\ pc' = "done"
    /\ result' = Some(ScanErr)
    /\ UNCHANGED <<fs, ignoreFile, cacheFile, clock, disk, edited, poolBuilt,
                   loaded, config, port, files, retained, groups, pos,
                   processed, counter, progress, pending, runsLeft, call>>

\* hash_files_parallel, lines 167-170: the HashingPort answers Err and the
\* file is skipped
HashFileErr(g) ==
    /\ pc \in {"partial", "full"}
    /\ g \in DOMAIN groups
    /\ pending[g] = None
    /\ pos[g] < Len(groups[g])
    /\ LET file == groups[g][pos[g] + 1] IN
          /\ HashErr \in HashOutcomes(pc = "partial", file)
          /\ hashLog' = hashLog \union
                 {[run |-> runsLeft, stage |-> pc, slot |-> <<g, pos[g] + 1>>,
                   path |-> file.path, out |-> HashErr]}
    /\ pos' = [pos EXCEPT ![g] = @ + 1]
    /\ UNCHANGED <<fs, ignoreFile, cacheFile, clock, disk, edited, poolBuilt,
                   loaded, config, port, pc, files, retained, groups,
                   processed, counter, progress, result, pending, runsLeft,
                   call>>

StageDone ==
    \A g \in DOMAIN groups : pos[g] = Len(groups[g]) /\ pending[g] = None

\* stage 3 started on the groups stage 2 was given, not regrouped by partial
\* hash
PartialStageEndNoRegroup ==
    /\ pc = "partial"
    /\ StageDone
    /\ pc' = "full"
    /\ StartStage(MoreThanOne(processed))
    /\ UNCHANGED <<fs, ignoreFile, cacheFile, clock, disk, edited, poolBuilt,
                   loaded, config, port, files, retained, progress, hashLog,
                   result, runsLeft, call>>

\* hash_files_parallel(.., true) returns and hash_files_parallel(.., false)
\* starts: lines 181-199, 113, 140-146
PartialStageEnd ==
    /\ pc = "partial"
    /\ StageDone
    /\ pc' = "full"
    /\ StartStage(MoreThanOne(Regroup(processed, TRUE)))
    /\ UNCHANGED <<fs, ignoreFile, cacheFile, clock, disk, edited, poolBuilt,
                   loaded, config, port, files, retained, progress, hashLog,
                   result, runsLeft, call>>

\* the second hash_files_parallel returns; progressive_hash_with_channels
\* lines 114-131 and find_duplicates lines 97-102
FullStageEnd ==
    /\ pc = "full"
    /\ StageDone
    /\ pc' = "done"
    /\ progress' = Append(progress, Event("finish", 0))
    /\ result' = Some(ScanResultNew(Duplicates(Regroup(processed, FALSE)),
                                    Len(files),
                                    SumSeq([i \in DOMAIN files |-> files[i].size])))
    /\ IF IsSome(config.cache_file)
       THEN cacheFile' = save_cache(create_cache(files, config, clock))
       ELSE UNCHANGED cacheFile
    /\ UNCHANGED <<fs, ignoreFile, clock, disk, edited, poolBuilt, loaded,
                   config, port, files, retained, groups, pos, processed,
                   counter, hashLog, pending, runsLeft, call>>

\* main returns: the process ends and with it the service, its ports and the
\* global pool; the tree and the cache file stay
ProcessExit ==
    /\ pc = "done"
    /\ pc' = "idle"
    /\ poolBuilt' = FALSE
    /\ loaded' = None
    /\ files' = <<>>
    /\ retained' = {}
    /\ StartStage(<<>>)
    /\ progress' = <<>>
    /\ hashLog' = {}
    /\ result' = None
    /\ UNCHANGED <<fs, ignoreFile, cacheFile, clock, disk, edited, config,
                   port, runsLeft, call>>

\* the process is terminated inside save_cache (line 98), after fs::write
\* opened and truncated the file and before it wrote all of the snapshot
TerminatedInSave ==
    /\ pc = "full"
    /\ StageDone
    /\ IsSome(config.cache_file)
    /\ disk /= "readonly"
    /\ cacheFile' = CorruptCache
    /\ pc' = "idle"
    /\ poolBuilt' = FALSE
    /\ loaded' = None
    /\ files' = <<>>
    /\ retained' = {}
    /\ StartStage(<<>>)
    /\ progress' = <<>>
    /\ hashLog' = {}
    /\ result' = None
    /\ UNCHANGED <<fs, ignoreFile, clock, disk, edited, config, port,
                   runsLeft, call>>

\* between two scans a file is written (created, rewritten or touched); a
\* behaviour changes the tree once
WriteFile(p, c, m) ==
    /\ pc = "idle"
    /\ runsLeft \in 1..(MaxRuns - 1)
    /\ ~edited
    /\ edited' = TRUE
    /\ fs[p] /= Some([content |-> c, modified |-> m])
    /\ fs' = [fs EXCEPT ![p] = Some([content |-> c, modified |-> m])]
    /\ UNCHANGED <<ignoreFile, cacheFile, clock, disk, poolBuilt, loaded,
                   config, port, pc, files, retained, groups, pos, processed,
                   counter, progress, hashLog, result, pending, runsLeft,
                   call>>

\* between two scans a file is deleted
RemoveFile(p) ==
    /\ pc = "idle"
    /\ runsLeft \in 1..(MaxRuns - 1)
    /\ ~edited
    /\ edited' = TRUE
    /\ IsSome(fs[p])
    /\ fs' = [fs EXCEPT ![p] = None]
    /\ UNCHANGED <<ignoreFile, cacheFile, clock, disk, poolBuilt, loaded,
                   config, port, pc, files, retained, groups, pos, processed,
                   counter, progress, hashLog, result, pending, runsLeft,
                   call>>

\* the count taken with a load and a later store in place of fetch_add: the
\* increment is lost while another task holds a count it has not handed on
HashFileFetchRacy(g) ==
    /\ pc \in {"partial", "full"}
    /\ g \in DOMAIN groups
    /\ pending[g] = None
    /\ pos[g] < Len(groups[g])
    /\ LET file == groups[g][pos[g] + 1] IN
       \E out \in HashOutcomes(pc = "partial", file) :
          /\ out.ok
          /\ processed' = [processed EXCEPT ![g] =
                 Append(@, IF pc = "partial"
                           THEN with_partial_hash(file, out.hash)
                           ELSE with_full_hash(file, out.hash))]
          /\ hashLog' = hashLog \union
                 {[run |-> runsLeft, stage |-> pc, slot |-> <<g, pos[g] + 1>>,
                   path |-> file.path, out |-> out]}
    /\ pos' = [pos EXCEPT ![g] = @ + 1]
    /\ counter' = IF \E h \in DOMAIN groups : pending[h] /= None
                  THEN counter ELSE counter + 1
    /\ pending' = [pending EXCEPT ![g] = Some(counter + 1)]
    /\ UNCHANGED <<fs, ignoreFile, cacheFile, clock, disk, edited, poolBuilt,
                   loaded, config, port, pc, files, retained, groups,
                   progress, result, runsLeft, call>>

\* hash_files_parallel, lines 150-173: the task of group g takes its next
\* file, the HashingPort answers Ok(hash) and the task takes its count from
\* counter.fetch_add(1, SeqCst); the tasks of other groups may run before it
\* hands the count on
HashFileFetch(g) ==
    /\ pc \in {"partial", "full"}
    /\ g \in DOMAIN groups
    /\ pending[g] = None
    /\ pos[g] < Len(groups[g])
    /\ LET file == groups[g][pos[g] + 1] IN
       \E out \in HashOutcomes(pc = "partial", file) :
          /\ out.ok
          /\ processed' = [processed EXCEPT ![g] =
                 Append(@, IF pc = "partial"
                           THEN with_partial_hash(file, out.hash)
                           ELSE with_full_hash(file, out.hash))]
          /\ hashLog' = hashLog \union
                 {[run |-> runsLeft, stage |-> pc, slot |-> <<g, pos[g] + 1>>,
                   path |-> file.path, out |-> out]}
    /\ pos' = [pos EXCEPT ![g] = @ + 1]
    /\ counter' = counter + 1
    /\ pending' = [pending EXCEPT ![g] = Some(counter + 1)]
    /\ UNCHANGED <<fs, ignoreFile, cacheFile, clock, disk, edited, poolBuilt,
                   loaded, config, port, pc, files, retained, groups,
                   progress, result, runsLeft, call>>

\* hash_files_parallel, line 174: the task of group g hands its count to
\* progress.update
ProgressUpdate(g) ==
    /\ pc \in {"partial", "full"}
    /\ g \in DOMAIN groups
    /\ pending[g] /= None
    /\ progress' = Append(progress, Event("update", Unwrap(pending[g])))
    /\ pending' = [pending EXCEPT ![g] = None]
    /\ UNCHANGED <<fs, ignoreFile, cacheFile, clock, disk, edited, poolBuilt,
                   loaded, config, port, pc, files, retained, groups, pos,
                   processed, counter, hashLog, result, runsLeft, call>>

\* everything but `call`
scanVars ==
    <<fs, ignoreFile, cacheFile, clock, disk, edited, poolBuilt, loaded,
      config, port, pc, files, retained, groups, pos, processed, counter,
      pending, progress, hashLog, result, runsLeft>>

\* calculate_adaptive_partial_hash_size(call.size, call.base) returns
AdaptiveSizeReturn ==
    /\ call.fn = "calculate_adaptive_partial_hash_size"
    /\ call.prefix = None
    /\ call' = [call EXCEPT !.prefix =
                   Some(calculate_adaptive_partial_hash_size(call.size,
                                                             call.base))]
    /\ UNCHANGED scanVars

\* MultiAlgorithmHasher::hash_partial(call.path, call.bytes, algorithm)
\* returns
HashPartialReturn ==
    /\ call.fn = "hash_partial"
    /\ call.answer = None
    /\ \E out \in hash_partial(call.path, call.bytes, config.hash_algorithm) :
           call' = [call EXCEPT !.answer = Some(out)]
    /\ UNCHANGED scanVars

\* MultiAlgorithmHasher::hash_file(call.path, algorithm) returns
HashFileReturn ==
    /\ call.fn = "hash_file"
    /\ call.answer = None
    /\ \E out \in hash_file(call.path, config.hash_algorithm) :
           call' = [call EXCEPT !.answer = Some(out)]
    /\ UNCHANGED scanVars

Next ==
    \/ FindDuplicatesBegin
    \/ \E g \in DOMAIN groups : HashFileOk(g)
    \/ \E g \in DOMAIN groups : HashFileErr(g)
    \/ PartialStageEnd
    \/ FullStageEnd
    \/ ProcessExit

NextCache ==
    \/ FindDuplicatesBegin
    \/ \E g \in DOMAIN groups : HashFileOk(g)
    \/ \E g \in DOMAIN groups : HashFileErr(g)
    \/ PartialStageEnd
    \/ FullStageEnd
    \/ ProcessExit
    \/ \E p \in DOMAIN fs, c \in Contents, m \in Mtimes : WriteFile(p, c, m)
    \/ \E p \in DOMAIN fs : RemoveFile(p)

NextService ==
    \/ FindDuplicatesBegin
    \/ FindDuplicatesAgain
    \/ \E g \in DOMAIN groups : HashFileOk(g)
    \/ \E g \in DOMAIN groups : HashFileErr(g)
    \/ PartialStageEnd
    \/ FullStageEnd

NextStore ==
    \/ FindDuplicatesBegin
    \/ \E g \in DOMAIN groups : HashFileOk(g)
    \/ \E g \in DOMAIN groups : HashFileErr(g)
    \/ PartialStageEnd
    \/ FullStageEnd
    \/ TerminatedInSave
    \/ ProcessExit

\* the tasks of hash_files_parallel interleaved at each of their steps
NextTasks ==
    \/ FindDuplicatesBegin
    \/ \E g \in DOMAIN groups : HashFileFetch(g)
    \/ \E g \in DOMAIN groups : ProgressUpdate(g)
    \/ \E g \in DOMAIN groups : HashFileErr(g)
    \/ PartialStageEnd
    \/ FullStageEnd
    \/ ProcessExit

NextUnit ==
    \/ FindDuplicatesBegin
    \/ \E g \in DOMAIN groups : HashFileOk(g)
    \/ \E g \in DOMAIN groups : HashFileErr(g)
    \/ PartialStageEnd
    \/ FullStageEnd
    \/ ProcessExit
    \/ AdaptiveSizeReturn
    \/ HashPartialReturn
    \/ HashFileReturn

Spec == Init /\ [][Next]_vars

SpecTasks == InitTasks /\ [][NextTasks]_vars

SpecUnit == InitUnit /\ [][NextUnit]_vars

SpecPort == InitPort /\ [][Next]_vars

SpecCache == InitCache /\ [][NextCache]_vars

SpecService == InitService /\ [][NextService]_vars

SpecStore == InitStore /\ [][NextStore]_vars

\* ------------------------------------------------------------ properties

Returned == pc = "done" /\ IsSome(result)
ReturnedOk == Returned /\ Unwrap(result).ok
DuplicateSets == Range(Unwrap(result).duplicates)
SetPaths(d) == {d.files[i].path : i \in DOMAIN d.files}
Content(p) == Unwrap(fs[p]).content
ConfiguredRoots == Range(config.paths)
HashNeverFailed(p) == \A e \in hashLog : e.path = p => e.out.ok

\* p is a file under a configured root that passes the min-size filter and
\* that no configured ignore pattern names
PassesFilters(p) ==
    /\ IsSome(fs[p])
    /\ RootOf(p) \in ConfiguredRoots
    /\ Len(Content(p)) >= config.min_size
    /\ \A pattern \in config.ignore_patterns : ~Matches(p, pattern)

IdenticalPair(p, q) ==
    /\ p /= q
    /\ PassesFilters(p) /\ PassesFilters(q)
    /\ Content(p) = Content(q)
    /\ HashNeverFailed(p) /\ HashNeverFailed(q)

C2_GroupingSound ==
    ReturnedOk =>
        \A d \in DuplicateSets :
            \A i \in DOMAIN d.files, j \in DOMAIN d.files :
                /\ IsSome(fs[d.files[i].path])
                /\ Content(d.files[i].path) = Content(d.files[j].path)
                /\ d.files[i].size = d.files[j].size
                /\ d.files[i].partial_hash = d.files[j].partial_hash
                /\ d.files[i].full_hash = Some(d.hash)

C2_Witness ==
    /\ ReturnedOk
    /\ \E d \in DuplicateSets :
          /\ Cardinality(SetPaths(d)) >= 2
          /\ \E f \in Range(files) :
                /\ f.path \notin SetPaths(d)
                /\ f.size = d.files[1].size
                /\ \E e \in hashLog : e.path = f.path /\ e.out.ok

\* C3: size law. In every DuplicateSet returned by find_duplicates all files
\* have the same size, whatever the HashingPort returned.
C3_SizeLaw ==
    ReturnedOk =>
        \A d \in DuplicateSets :
            \A i \in DOMAIN d.files : d.files[i].size = d.files[1].size

\* C4: counting law. Each DuplicateSet's wasted_space is
\* (len(files) - 1) * files[0].size and total_wasted_space is the sum of
\* these values over the returned DuplicateSets.
C4_CountingLaw ==
    ReturnedOk =>
        LET ds == Unwrap(result).duplicates IN
        /\ \A i \in DOMAIN ds :
              wasted_space(ds[i]) = (Len(ds[i].files) - 1) * ds[i].files[1].size
        /\ Unwrap(result).total_wasted_space =
              SumSeq([i \in DOMAIN ds |->
                         (Len(ds[i].files) - 1) * ds[i].files[1].size])

\* C5: filter law. No record with size < min_size is a member of a
\* DuplicateSet, in scans that walk the whole tree and in incremental scans
\* that take part of their candidates from a valid cache snapshot.
C5_FilterLaw ==
    ReturnedOk =>
        \A d \in DuplicateSets :
            \A i \in DOMAIN d.files : d.files[i].size >= config.min_size

C5_Witness ==
    /\ ReturnedOk
    /\ config.incremental
    /\ config.min_size > 0
    /\ retained /= {}
    /\ \E f \in Range(files) : f.path \notin retained
    /\ \E d \in DuplicateSets : SetPaths(d) \cap retained /= {}
    /\ \E p \in DOMAIN fs : IsSome(fs[p]) /\ Len(Content(p)) < config.min_size

SingleCopies ==
    \A p \in DOMAIN fs, q \in DOMAIN fs :
        (/\ p /= q
         /\ IsSome(fs[p]) /\ IsSome(fs[q])
         /\ RootOf(p) \in ConfiguredRoots /\ RootOf(q) \in ConfiguredRoots)
        => Content(p) /= Content(q)

\* C6: reflexivity. For any list of roots, a scan of a tree that holds a
\* single copy of each file returns no DuplicateSet and no wasted space, and
\* no DuplicateSet ever lists one path twice.
C6_Reflexivity ==
    ReturnedOk =>
        /\ SingleCopies =>
              /\ Unwrap(result).duplicates = <<>>
              /\ Unwrap(result).total_wasted_space = 0
        /\ \A d \in DuplicateSets :
              Cardinality(SetPaths(d)) = Len(d.files)

\* C7: ignore patterns. A file that matches one of config.ignore_patterns is
\* not emitted by the Walker and is a member of no DuplicateSet.
C7_IgnorePatterns ==
    ReturnedOk =>
        \A f \in Range(files) :
            \A pattern \in config.ignore_patterns : ~Matches(f.path, pattern)

\* C8: Walker failure is fatal. When a configured root does not exist,
\* find_duplicates returns Err.
C8_WalkerFailureFatal ==
    (Returned /\ \E i \in DOMAIN config.paths : config.paths[i] \notin ExistingRoots)
        => ~Unwrap(result).ok

\* C9: the snapshot carries this run's hashes. After a scan that wrote its
\* snapshot, every snapshot record of a file hashed in stage 2 (stage 3) of
\* the scan holds the partial_hash (full_hash) the scan computed.
C9_SnapshotCarriesHashes ==
    (ReturnedOk /\ IsSome(config.cache_file) /\ cacheFile.state = "snapshot") =>
        \A r \in Range(cacheFile.files) :
            \A e \in hashLog :
                (e.path = r.path /\ e.out.ok) =>
                    IF e.stage = "partial"
                    THEN r.partial_hash = Some(e.out.hash)
                    ELSE r.full_hash = Some(e.out.hash)

\* C10: incremental reuse. A record retained from a valid snapshot in an
\* incremental scan is never passed to the HashingPort.
C10_IncrementalReuse ==
    \A e \in hashLog : e.path \notin retained

\* the record the Walker emits for path p of the present tree
WalkerRecord(p) ==
    FileMetadataNew(p, Len(Content(p)), Unwrap(fs[p]).modified)

\* the file of snapshot record r is gone or has another size or mtime
RecordChanged(r) ==
    \/ ~IsSome(fs[r.path])
    \/ Len(Content(r.path)) /= r.size
    \/ Unwrap(fs[r.path]).modified /= r.modified

\* digest h was handed back by the HashingPort for path p in the present call
ComputedNow(stage, p, h) ==
    /\ IsSome(h)
    /\ \E e \in hashLog :
          /\ e.run = runsLeft /\ e.stage = stage /\ e.path = p
          /\ e.out = HashOk(Unwrap(h))

\* C11: incremental soundness. In an incremental scan that loaded a snapshot,
\* a snapshot record whose file is gone or differs in size or mtime is not
\* retained, every candidate of that path is the Walker's record, and the
\* partial and full digest reported for that path in a DuplicateSet were
\* handed back by the HashingPort during this scan.
C11_IncrementalSound ==
    (ReturnedOk /\ config.incremental /\ IsSome(loaded)) =>
        \A r \in Range(Unwrap(loaded).files) :
            RecordChanged(r) =>
                /\ r.path \notin retained
                /\ \A f \in Range(files) :
                      f.path = r.path =>
                          IsSome(fs[r.path]) /\ f = WalkerRecord(r.path)
                /\ \A d \in DuplicateSets :
                      \A i \in DOMAIN d.files :
                          d.files[i].path = r.path =>
                              /\ ComputedNow("partial", r.path,
                                             d.files[i].partial_hash)
                              /\ ComputedNow("full", r.path,
                                             d.files[i].full_hash)

C11_Witness ==
    /\ ReturnedOk
    /\ config.incremental
    /\ IsSome(loaded)
    /\ retained /= {}
    /\ \E r \in Range(Unwrap(loaded).files) :
          /\ IsSome(fs[r.path])
          /\ Len(Content(r.path)) = r.size
          /\ Unwrap(fs[r.path]).modified /= r.modified
          /\ \E d \in DuplicateSets :
                r.path \in SetPaths(d) /\ SetPaths(d) \cap retained /= {}

BagOfSeq(sq) ==
    [x \in Range(sq) |-> Cardinality({i \in DOMAIN sq : sq[i] = x})]

\* a ScanResult with the order of its sets and of their files forgotten
Unordered(r) ==
    [ok |-> r.ok,
     total_files_scanned |-> r.total_files_scanned,
     total_size_scanned |-> r.total_size_scanned,
     total_wasted_space |-> r.total_wasted_space,
     duplicates |->
         BagOfSeq([i \in DOMAIN r.duplicates |->
                     [hash |-> r.duplicates[i].hash,
                      total_size |-> r.duplicates[i].total_size,
                      files |-> BagOfSeq(r.duplicates[i].files)]])]

\* the HashingPort answered a repeated call as it answered it before
SameAnswers(log) ==
    \A e1 \in log, e2 \in log :
        (e1.stage = e2.stage /\ e1.path = e2.path) => e1.out = e2.out

\* C12: cache idempotence. When a find_duplicates call returns after it
\* loaded a snapshot, the call before it having returned Ok for the same
\* config and tree and the HashingPort answering both alike, it returns the
\* ScanResult of the call before it up to the order of the DuplicateSets and
\* of the files within a set.
C12_CacheIdempotent ==
    [][(/\ pc /= "idle"
        /\ pc' = "done"
        /\ runsLeft' < MaxRuns - 1
        /\ IsSome(result) /\ Unwrap(result).ok
        /\ IsSome(result')
        /\ IsSome(loaded')
        /\ SameAnswers(hashLog'))
       => Unordered(Unwrap(result')) = Unordered(Unwrap(result))]_vars

C12_Witness ==
    /\ ReturnedOk
    /\ runsLeft < MaxRuns - 1
    /\ config.incremental
    /\ IsSome(loaded)
    /\ retained /= {}
    /\ DuplicateSets /= {}
    /\ SameAnswers(hashLog)
    /\ \E e \in hashLog : e.run = runsLeft + 1 /\ e.stage = "full"
    /\ \E e \in hashLog : e.run = runsLeft /\ e.stage = "full"

\* C13: is_cache_valid. For the snapshot a call loaded, is_cache_valid is
\* true exactly when the snapshot's config hash is the config's, its version
\* is the tool's, and its last_scan is not later than the clock and at most
\* 24 hours before it.
C13_CacheValidIff ==
    IsSome(loaded) =>
        (is_cache_valid(Unwrap(loaded), config, clock)
         <=> /\ Unwrap(loaded).scan_config_hash = config_hash(config)
             /\ Unwrap(loaded).version = CARGO_PKG_VERSION
             /\ Unwrap(loaded).last_scan <= clock
             /\ clock - Unwrap(loaded).last_scan <= DaySecs)

\* the call found no file, no parsable snapshot, a snapshot older than a day
\* or a snapshot of another config or version
CacheUnusable ==
    \/ ~IsSome(loaded)
    \/ /\ Unwrap(loaded).last_scan <= clock
       /\ clock - Unwrap(loaded).last_scan > DaySecs
    \/ Unwrap(loaded).scan_config_hash /= config_hash(config)
    \/ Unwrap(loaded).version /= CARGO_PKG_VERSION

\* C14: cache failures never abort. Whatever the cache file held and however
\* save_cache fared, find_duplicates returns Ok; and when the file was
\* absent, unparsable, stale or of another config or version, the candidates
\* and the totals are those of a scan without a cache: the Walker's list.
C14_CacheNeverAborts ==
    Returned =>
        /\ Unwrap(result).ok
        /\ CacheUnusable =>
              /\ retained = {}
              /\ files = scan_files(config).files
              /\ Unwrap(result).total_files_scanned = Len(scan_files(config).files)

C14_Witness ==
    /\ ReturnedOk
    /\ config.incremental
    /\ IsSome(loaded)
    /\ Unwrap(loaded).files /= <<>>
    /\ Unwrap(loaded).scan_config_hash = config_hash(config)
    /\ Unwrap(loaded).version = CARGO_PKG_VERSION
    /\ clock - Unwrap(loaded).last_scan > DaySecs
    /\ disk = "full"
    /\ cacheFile = CorruptCache
    /\ DuplicateSets /= {}

\* C19: no partially written cache. Every step that changes the file at
\* cache_file leaves a complete snapshot there.
C19_NoPartialCache ==
    [][cacheFile' /= cacheFile => cacheFile'.state = "snapshot"]_vars

\* path p is a candidate of the present call for which no hash call failed
HashedClean(p) ==
    /\ \E f \in Range(files) : f.path = p
    /\ IsSome(fs[p])
    /\ \A e \in hashLog : (e.run = runsLeft /\ e.path = p) => e.out.ok

\* candidate records of path p, hash calls of the present call that failed
\* for p, and members of path p over all DuplicateSets of the result
CandidatesOf(p) == Cardinality({i \in DOMAIN files : files[i].path = p})

FailuresOf(p) ==
    Cardinality({e \in hashLog : e.run = runsLeft /\ e.path = p /\ ~e.out.ok})

MembersOf(p) ==
    LET ds == Unwrap(result).duplicates IN
    SumSeq([k \in DOMAIN ds |->
               Cardinality({i \in DOMAIN ds[k].files : ds[k].files[i].path = p})])

candidate_count == Len(Flatten(PotentialDuplicates(files)))

\* C16: progress protocol ordering. From the start of stage 2 on, the first
\* call the ProgressPort received is start(2 * candidate_count) and there is
\* no other start; every update(count) has 1 <= count <= total; finish is
\* received at most once, as the last call, when stage 3 is over; and a call
\* that returns after hashing has received it.
C16_ProgressProtocol ==
    (pc \in {"partial", "full"} \/ (ReturnedOk /\ candidate_count > 0)) =>
        /\ progress /= <<>>
        /\ progress[1] = Event("start", 2 * candidate_count)
        /\ \A i \in DOMAIN progress :
              /\ progress[i].op = "start" => i = 1
              /\ progress[i].op = "update" =>
                    (1 <= progress[i].n /\ progress[i].n <= 2 * candidate_count)
              /\ progress[i].op = "finish" =>
                    (i = Len(progress) /\ pc = "done")
        /\ pc = "done" => progress[Len(progress)].op = "finish"

C16_Witness ==
    /\ ReturnedOk
    /\ Len(progress) >= 5
    /\ progress[Len(progress)].op = "finish"
    /\ \E e \in hashLog : e.stage = "full" /\ e.out.ok
    /\ \E e \in hashLog : ~e.out.ok

\* C17: shared progress counter. The count of every update is the number of
\* files hashed so far in the whole call, stage 3 counting on from stage 2.
C17_SharedCounter ==
    \A i \in DOMAIN progress :
        progress[i].op = "update" =>
            progress[i].n =
                Cardinality({j \in 1..i : progress[j].op = "update"})

\* C18: one-shot thread pool. A find_duplicates call with thread_count set
\* does not return Err, also when the global pool of the process was
\* configured or used by an earlier call.
C18_PoolOneShot ==
    (Returned /\ IsSome(config.thread_count)) => Unwrap(result).ok

MmapThresholds == {DefaultMmapThreshold, BufferSize}

\* C20: config_hash invariance. The config_hash stamped into a snapshot is the
\* config_hash of every config that differs from the scan's only in
\* thread_count, use_mmap_threshold, cache_file or incremental, none of which
\* changes the candidates or the digests.
C20_ConfigHashInvariant ==
    cacheFile.state = "snapshot" =>
        \A t \in ThreadCounts, m \in MmapThresholds,
           cf \in {None, Some(CachePath)}, inc \in BOOLEAN :
            config_hash([config EXCEPT !.thread_count = t,
                                       !.use_mmap_threshold = m,
                                       !.cache_file = cf,
                                       !.incremental = inc])
                = cacheFile.scan_config_hash

\* C21: Walker acceptance rule. scan_files emits a record for a path if and
\* only if the path is a regular file under a configured root, its size is at
\* least min_size and no configured ignore pattern applies to it; no other
\* regular file is left out.
C21_WalkerAcceptance ==
    Returned =>
        \A p \in DOMAIN fs :
            (\E i \in DOMAIN files : files[i].path = p) <=> PassesFilters(p)

\* find_duplicates, lines 40-51: cached_files of the present call, from the
\* snapshot it loaded
LoadedCachedFiles ==
    IF IsSome(loaded) /\ is_cache_valid(Unwrap(loaded), config, clock)
    THEN IF config.incremental
         THEN filter_changed_files(Unwrap(loaded).files)
         ELSE Unwrap(loaded).files
    ELSE <<>>

\* C22: incremental merge. When an incremental call had a non-empty cached
\* set, its candidate list holds exactly the cached records whose path the
\* Walker reported and the Walker records whose path is not a cached path;
\* so the candidate paths are the Walker's paths, no candidate is a deleted
\* file, and a path in both is represented by its cached record.
C22_IncrementalMerge ==
    (Returned /\ config.incremental /\ LoadedCachedFiles /= <<>>) =>
        LET cached == Range(LoadedCachedFiles)
            walked == Range(scan_files(config).files)
            cachedPaths == {c.path : c \in cached}
            walkedPaths == {w.path : w \in walked}
        IN  /\ Range(files) = {c \in cached : c.path \in walkedPaths}
                                 \union {w \in walked : w.path \notin cachedPaths}
            /\ Len(files) = Cardinality(Range(files))
            /\ {f.path : f \in Range(files)} = walkedPaths
            /\ \A f \in Range(files) : IsSome(fs[f.path])
            /\ \A f \in Range(files) :
                  f.path \in cachedPaths => f \in cached

C22_Witness ==
    /\ ReturnedOk /\ config.incremental
    /\ \E c \in Range(LoadedCachedFiles) :
          /\ c \in Range(files)
          /\ c \notin Range(scan_files(config).files)
    /\ \E w \in Range(scan_files(config).files) :
          /\ w \in Range(files)
          /\ \A c \in Range(LoadedCachedFiles) : c.path /= w.path
    /\ DuplicateSets /= {}

\* C24: the snapshot is always written. When a call with cache_file set
\* returns Ok and the volume takes the write, the cache file holds a snapshot
\* of the call's candidate list, on every return path, an empty candidate
\* list included.
C24_SnapshotAlwaysWritten ==
    (ReturnedOk /\ IsSome(config.cache_file) /\ disk = "ok") =>
        /\ cacheFile.state = "snapshot"
        /\ cacheFile.files = files
        /\ cacheFile.last_scan = clock

\* the prefix length stage 2 hashes of file f
PrefixOf(f) ==
    calculate_adaptive_partial_hash_size(f.size, config.partial_hash_size)

C28_RouteEquivalence ==
    (IsSome(call.answer) /\ IsSome(fs[call.path])) =>
        /\ call.fn = "hash_partial" =>
              Unwrap(call.answer) =
                  HashOk(Finalize(config.hash_algorithm,
                                  Feed(0, Take(Content(call.path), call.bytes))))
        /\ call.fn = "hash_file" =>
              Unwrap(call.answer) =
                  HashOk(Finalize(config.hash_algorithm,
                                  Feed(0, Content(call.path))))

C28_Witness ==
    /\ call.fn = "hash_partial"
    /\ IsSome(call.answer)
    /\ Unwrap(call.answer).ok
    /\ IsSome(fs[call.path])
    /\ Len(Content(call.path)) = 2
    /\ call.bytes = 1
    /\ Len(Content(call.path)) >= config.use_mmap_threshold

\* the hash calls of one stage that returned Ok
OkCalls(stage) == {e \in hashLog : e.stage = stage /\ e.out.ok}

\* the counts progress.update received, in order of arrival
UpdateCounts ==
    LET ups == SelectSeq(progress, LAMBDA ev : ev.op = "update")
    IN  [i \in DOMAIN ups |-> ups[i].n]

\* the counts received from one hash_files_parallel call: stage 3 starts
\* when every task of stage 2 has returned
StageCounts(stage) ==
    LET k2 == Cardinality(OkCalls("partial")) IN
    IF stage = "partial"
    THEN (IF pc = "partial" THEN UpdateCounts ELSE SubSeq(UpdateCounts, 1, k2))
    ELSE (IF pc = "partial" THEN <<>>
          ELSE SubSeq(UpdateCounts, k2 + 1, Len(UpdateCounts)))

\* counts that a task holds and has not handed on
HeldCounts == {Unwrap(pending[g]) : g \in {h \in DOMAIN pending : pending[h] /= None}}

OutOfOrder(counts) ==
    \E i, j \in DOMAIN counts : i < j /\ counts[i] > counts[j]

\* the digest strings the calls on path p returned in one stage
DigestsOf(p, stage) == {e.out.hash : e \in {c \in OkCalls(stage) : c.path = p}}

SizeOf(p) == Len(Content(p))

\* p was answered in stage 3 as a file of its size and partial hash was
\* that shares its full hash
InFullHashPair(p) ==
    \E q \in DOMAIN fs \ {p} :
        /\ IsSome(fs[q]) /\ SizeOf(q) = SizeOf(p)
        /\ DigestsOf(p, "partial") /= {}
        /\ DigestsOf(q, "partial") = DigestsOf(p, "partial")
        /\ DigestsOf(p, "full") /= {}
        /\ DigestsOf(q, "full") = DigestsOf(p, "full")

\* C25: scheduling independence. The DuplicateSets a scan returns are
\* determined by its candidates and by what the Hasher answered for each
\* file: one set per full digest, holding the files that were answered that
\* digest together with another file of their size and partial hash,
\* whatever the order in which the tasks ran and reported.
C25_SchedulingIndependence ==
    ReturnedOk =>
        /\ {[hash |-> d.hash, paths |-> SetPaths(d)] : d \in DuplicateSets}
             = {[hash |-> h,
                 paths |-> {p \in DOMAIN fs :
                               InFullHashPair(p) /\ DigestsOf(p, "full") = {h}}] :
                    h \in UNION {DigestsOf(p, "full") :
                                     p \in {q \in DOMAIN fs : InFullHashPair(q)}}}
        /\ Len(Unwrap(result).duplicates) = Cardinality(DuplicateSets)
        /\ \A d \in DuplicateSets : Len(d.files) = Cardinality(SetPaths(d))

C25_Witness ==
    /\ ReturnedOk
    /\ Cardinality(DuplicateSets) = 2
    /\ OutOfOrder(StageCounts("full"))

\* C26: funnel minimality. hash_partial is called only on files that share
\* their size with another candidate, hash_file only on files whose partial
\* hash is that of another successfully hashed file of the same size, and no
\* hash_file call is made before every hash_partial call of stage 2 has
\* returned.
C26_FunnelMinimal ==
    \A e \in hashLog :
        /\ e.stage = "partial" =>
              \E i, j \in DOMAIN files :
                  /\ i /= j
                  /\ files[i].path = e.path
                  /\ files[j].size = files[i].size
        /\ e.stage = "full" =>
              /\ \E a, b \in OkCalls("partial") :
                    /\ a.path = e.path
                    /\ b.slot /= a.slot
                    /\ b.out.hash = a.out.hash
                    /\ SizeOf(b.path) = SizeOf(a.path)
              /\ \A i, j \in DOMAIN files :
                    (i /= j /\ files[i].size = files[j].size) =>
                        \E c \in hashLog :
                            c.stage = "partial" /\ c.path = files[i].path

C26_Witness ==
    /\ ReturnedOk
    /\ \E p \in DOMAIN fs : \A e \in hashLog : e.path /= p
    /\ \E p \in DOMAIN fs :
          /\ DigestsOf(p, "partial") /= {}
          /\ \A e \in hashLog : e.path = p => e.stage = "partial"
    /\ OkCalls("full") /= {}

\* C27: atomic progress counting. Within one stage the counts handed to
\* progress.update are pairwise distinct; together with the counts taken and
\* not yet handed on they are exactly 1..k, k being the number of hash calls
\* of the stage that returned Ok so far; a failed call gives no update; the
\* counts may arrive out of order.
C27_AtomicCounting ==
    /\ pc \in {"partial", "full", "done"} =>
          \A stage \in {"partial", "full"} :
              LET counts == StageCounts(stage)
                  held == IF pc = stage THEN HeldCounts ELSE {}
                  k == Cardinality(OkCalls(stage))
              IN  /\ \A i, j \in DOMAIN counts :
                        i /= j => counts[i] /= counts[j]
                  /\ Range(counts) \cap held = {}
                  /\ Range(counts) \union held = 1..k
                  /\ Len(counts) + Cardinality(held) = k
    /\ Len(UpdateCounts) + Cardinality(HeldCounts)
           = Cardinality({e \in hashLog : e.out.ok})

C27_Witness ==
    /\ pc = "full"
    /\ StageDone
    /\ OutOfOrder(StageCounts("partial"))
    /\ \E e \in hashLog : e.stage = "partial" /\ ~e.out.ok
    /\ Range(StageCounts("full")) = 1..2

====
